---- MODULE Spec2Model ----
(***************************************************************************)
(* Model of the force-layout controller of the graph visualisation:        *)
(*   ForceSimulation (ForceSimulation.ts) driving a d3-force simulation,   *)
(*   and the Graph component that owns the visualisation.                  *)
(*                                                                         *)
(* alpha is kept in fixed point, in units of 1e-9.                         *)
(***************************************************************************)
EXTENDS Integers, Sequences, FiniteSets

(* ------------------------------ bounds -------------------------------- *)

\* longest relationship list of a graph handed to the controller
MaxRels == 2

\* restart()/precompute() calls allowed in the liveness specification
MaxControlCalls == 2

\* node identifiers of the graphs handed to the controller
NodeIds == {"A", "B"}

(* ----------------------- configuration constants ---------------------- *)

\* constants.ts, imported at ForceSimulation.ts:30-42: starting alpha 1,
\* alpha floor 0.05, steps per precompute, steps per rendered frame
DEFAULT_ALPHA == 1000000000
DEFAULT_ALPHA_MIN == 50000000
PRECOMPUTED_TICKS == 300
TICKS_PER_RENDER == 10

\* constants.ts, imported at ForceSimulation.ts:38: the typical edge length
\* used to seed the nodes on a circle
LINK_DISTANCE == 45

\* Math.PI * 2, in units of 1e-3
TWO_PI == 6283

\* d3-force defaults of forceSimulation(): alpha = 1, alphaMin = 0.001,
\* alphaDecay = 1 - 0.001^(1/300) = 0.0227627790..., alphaTarget = 0;
\* alphaDecay is kept as (D3_DECAY_HI * 10000 + D3_DECAY_LO) * 1e-9
D3_ALPHA == 1000000000
D3_ALPHA_MIN == 1000000
D3_DECAY_HI == 2276
D3_DECAY_LO == 2780

Null == "null"
Callback == "cb"

(* ------------------------------ state --------------------------------- *)

VARIABLES
  simAlpha,               \* simulation.alpha()
  simAlphaMin,            \* simulation.alphaMin()
  timerRunning,           \* d3 stepper timer is scheduled (per-frame driver)
  simNodes,               \* simulation.nodes(): ids of the engine's node set
  forces,                 \* names of the registered forces, in Map order
  linkInput,              \* links of the 'link' force
  endSimulationCallback,  \* ForceSimulation.endSimulationCallback
  mounted,                \* the Graph component is mounted
  controlCalls,           \* restart()/precompute() calls left (liveness spec)
  phase,                  \* history: "stopped", "animating" or "converged"
  lastOp,                 \* history: the operation that produced this state
  events,                 \* history: what that operation did, in order
  before,                 \* history: phase before that operation
  lastGraph,              \* history: the graph that operation was given
  invocations,            \* history: end-callback calls since it was registered
  called,                 \* history: the methods called since construction
  graphModel,             \* the GraphModel of the Graph component (const graph)
  exec                    \* the call and the timer frame in progress, and
                          \* the position reached in them

vars == <<simAlpha, simAlphaMin, timerRunning, simNodes, forces, linkInput,
          endSimulationCallback, mounted, controlCalls, phase, lastOp, events,
          before, lastGraph, invocations, called, graphModel, exec>>

(* ------------------------------ graphs -------------------------------- *)

\* a relationship: its id is its position in the graph's relationship list
Relationship(i, s, t) == [id |-> i, source |-> s, target |-> t]

RelLists(ns) ==
  UNION { { [i \in 1..n |-> Relationship(i, f[i][1], f[i][2])] :
              f \in [1..n -> ns \X ns] } : n \in 0..MaxRels }

\* GraphModel: nodes with unique ids, relationships between nodes of the graph
Graphs ==
  UNION { { [nodes |-> ns, relationships |-> rs] : rs \in RelLists(ns) } :
          ns \in SUBSET NodeIds }

\* the graphs without relationships: updateNodes reads graph.nodes() alone
NodeGraphs == { g \in Graphs : g.relationships = <<>> }

\* NodePair: the unordered pair of endpoints of a relationship
PairKey(r) == {r.source, r.target}

\* GraphModel.groupedRelationships(): groups of parallel relationships keyed
\* by unordered endpoint pair, each group in list order
RECURSIVE GroupFold(_, _)
GroupFold(rels, groups) ==
  IF rels = <<>> THEN groups
  ELSE LET r == Head(rels)
           idx == {i \in 1..Len(groups) : groups[i].pair = PairKey(r)}
       IN IF idx = {}
          THEN GroupFold(Tail(rels),
                 Append(groups, [pair |-> PairKey(r), relationships |-> <<r>>]))
          ELSE LET i == CHOOSE j \in idx : TRUE
               IN GroupFold(Tail(rels),
                    [groups EXCEPT ![i].relationships = Append(@, r)])

groupedRelationships(graph) == GroupFold(graph.relationships, <<>>)

oneRelationshipPerPairOfNodes_NoDedup(graph) == graph.relationships

oneRelationshipPerPairOfNodes(graph) ==
  LET groups == groupedRelationships(graph)
  IN [i \in 1..Len(groups) |-> groups[i].relationships[1]]

(* --------------------------- d3 simulation ---------------------------- *)

\* one integration step: alpha += (alphaTarget - alpha) * alphaDecay.
\* alpha * alphaDecay is multiplied out in halves of alpha (a \div 1e5 and
\* a % 1e5) and of alphaDecay, which keeps every product within 32 bits,
\* and is rounded up to the unit, so that alpha decreases down to 0
Decay(a) ==
  a - ((a \div 100000) * D3_DECAY_HI +
       ((a \div 100000) * D3_DECAY_LO * 10 + (a % 100000) * D3_DECAY_HI +
        99999 + ((a % 100000) * D3_DECAY_LO + 9999) \div 10000)
       \div 100000)

\* simulation.tick(n): n integration steps, one after the other (evaluated
\* by halving n, each half on the value the other half produced)
RECURSIVE Tick(_, _)
Tick(a, n) ==
  IF n = 0 THEN a
  ELSE IF n = 1 THEN Decay(a)
  ELSE CHOOSE r \in {Tick(b, n - n \div 2) : b \in {Tick(a, n \div 2)}} : TRUE

SetForce_Stack(fs, name) == Append(fs, name)

\* simulation.force(name, f): forces is a Map, a name is set in place
SetForce(fs, name) ==
  IF \E i \in 1..Len(fs) : fs[i] = name THEN fs ELSE Append(fs, name)

ForceCount(name) == Cardinality({i \in 1..Len(forces) : forces[i] = name})

Range(seq) == {seq[i] : i \in 1..Len(seq)}

(* history helpers *)
Ev(kind, n) == [kind |-> kind, n |-> n]

RECURSIVE Steps(_)
Steps(es) ==
  IF es = <<>> THEN 0
  ELSE (IF Head(es).kind = "tick" THEN Head(es).n ELSE 0) + Steps(Tail(es))

Count(es, kind) == Cardinality({i \in 1..Len(es) : es[i].kind = kind})

\* the call count of the history is kept up to 2: 0, 1, more than 1
Cap(n) == IF n > 2 THEN 2 ELSE n

(* ------------------------------- Init --------------------------------- *)

NoGraph == [nodes |-> {}, relationships |-> <<>>]

\* no call and no timer frame is in progress
Idle ==
  [call |-> "none", pc |-> 0, frame |-> FALSE, done |-> 0,
   nodes |-> {}, links |-> <<>>, nodesGraph |-> NoGraph,
   relationshipsGraph |-> NoGraph, whileAnimating |-> FALSE]

\* mapRelationships(internalRelationships, graph): relationship models
\* between nodes of the graph, numbered after those the graph holds
mapRelationships(internalRelationships, g) ==
  [i \in 1..Len(internalRelationships) |->
     Relationship(Len(g.relationships) + i,
                  internalRelationships[i][1], internalRelationships[i][2])]

\* createGraph(nodes, relationships): the graph of the nodes, with the
\* relationships mapped onto them
createGraph(nodes, relationships) ==
  [nodes |-> nodes,
   relationships |->
     mapRelationships(relationships, [nodes |-> nodes, relationships |-> <<>>])]

\* the nodes and relationships props of the Graph component: relationships
\* are endpoint pairs among the nodes
GraphProps ==
  UNION { { [nodes |-> ns, relationships |-> rs] :
              rs \in UNION { [1..n -> ns \X ns] : n \in 0..MaxRels } } :
          ns \in SUBSET NodeIds }

\* const graph = createGraph(nodes, relationships) in componentDidMount
InitialGraphs == { createGraph(p.nodes, p.relationships) : p \in GraphProps }

Init_NoStop ==
  /\ simAlpha = D3_ALPHA
  /\ simAlphaMin = D3_ALPHA_MIN
  /\ timerRunning = TRUE
  /\ simNodes = {}
  /\ forces = <<"charge", "centerX", "centerY">>
  /\ linkInput = <<>>
  /\ endSimulationCallback = Null
  /\ mounted = TRUE
  /\ controlCalls = MaxControlCalls
  /\ phase = "animating"
  /\ lastOp = "init"
  /\ events = <<>>
  /\ before = "stopped"
  /\ lastGraph = NoGraph
  /\ invocations = 0
  /\ called = {}
  /\ graphModel \in InitialGraphs
  /\ exec = Idle

\* new ForceSimulation(render): forceSimulation() starts its timer, the
\* three forces are registered and the chain ends in .stop()
Init ==
  /\ simAlpha = D3_ALPHA
  /\ simAlphaMin = D3_ALPHA_MIN
  /\ timerRunning = FALSE
  /\ simNodes = {}
  /\ forces = <<"charge", "centerX", "centerY">>
  /\ linkInput = <<>>
  /\ endSimulationCallback = Null
  /\ mounted = TRUE
  /\ controlCalls = MaxControlCalls
  /\ phase = "stopped"
  /\ lastOp = "init"
  /\ events = <<>>
  /\ before = "stopped"
  /\ lastGraph = NoGraph
  /\ invocations = 0
  /\ called = {}
  /\ graphModel \in InitialGraphs
  /\ exec = Idle

(* ------------------------------ actions ------------------------------- *)

radius_PerNode(k) == (LINK_DISTANCE * 1000000) \div TWO_PI

\* radius = (nodes.length * LINK_DISTANCE) / (Math.PI * 2), in units of 1e-3
radius(k) == (k * LINK_DISTANCE * 1000000) \div TWO_PI

\* circularLayout(nodes, center, radius): every node is given a position on
\* the circle around the centre; the model keeps its distance from the centre
circularLayout(nodes, r) == [n \in nodes |-> r]

\* history of updateNodes: the radius computed, the positions assigned, and
\* whether this call repeats the call before it
updateNodesEvents(graph) ==
  <<Ev("radius", radius(Cardinality(graph.nodes))),
    Ev("seed", Cardinality(DOMAIN circularLayout(graph.nodes,
                             radius(Cardinality(graph.nodes)))))>> \o
  (IF lastOp = "updateNodes" /\ graph.nodes = simNodes
   THEN <<Ev("repeat", 1)>> ELSE <<>>)

updateNodes_DropLink(graph) ==
  /\ mounted
  /\ called' = called \cup {"updateNodes"}
  /\ simNodes' = graph.nodes
  /\ forces' = SetForce(SelectSeq(forces, LAMBDA f : f # "link"), "collide")
  /\ lastOp' = "updateNodes"
  /\ events' = updateNodesEvents(graph)
  /\ before' = phase
  /\ lastGraph' = graph
  /\ UNCHANGED <<exec, graphModel, simAlpha, simAlphaMin, timerRunning, linkInput,
                 endSimulationCallback, mounted, controlCalls, phase,
                 invocations>>

updateNodes_FilterLinks(graph) ==
  /\ mounted
  /\ called' = called \cup {"updateNodes"}
  /\ simNodes' = graph.nodes
  /\ forces' = SetForce(forces, "collide")
  /\ linkInput' = SelectSeq(linkInput,
                    LAMBDA r : r.source \in graph.nodes /\ r.target \in graph.nodes)
  /\ lastOp' = "updateNodes"
  /\ events' = updateNodesEvents(graph)
  /\ before' = phase
  /\ lastGraph' = graph
  /\ UNCHANGED <<exec, graphModel, simAlpha, simAlphaMin, timerRunning,
                 endSimulationCallback, mounted, controlCalls, phase,
                 invocations>>

updateNodes_Stop(graph) ==
  /\ mounted
  /\ called' = called \cup {"updateNodes"}
  /\ simNodes' = graph.nodes
  /\ forces' = SetForce(forces, "collide")
  /\ timerRunning' = FALSE
  /\ lastOp' = "updateNodes"
  /\ events' = updateNodesEvents(graph)
  /\ before' = phase
  /\ lastGraph' = graph
  /\ UNCHANGED <<exec, graphModel, simAlpha, simAlphaMin, linkInput, endSimulationCallback,
                 mounted, controlCalls, phase, invocations>>

\* updateNodes(graph): seed the nodes on a circle, hand them to the engine,
\* register the collide force
updateNodes(graph) ==
  /\ mounted
  /\ called' = called \cup {"updateNodes"}
  /\ simNodes' = graph.nodes
  /\ forces' = SetForce(forces, "collide")
  /\ lastOp' = "updateNodes"
  /\ events' = updateNodesEvents(graph)
  /\ before' = phase
  /\ lastGraph' = graph
  /\ UNCHANGED <<exec, graphModel, simAlpha, simAlphaMin, timerRunning, linkInput,
                 endSimulationCallback, mounted, controlCalls, phase,
                 invocations>>

updateRelationships_Reheat(graph) ==
  /\ mounted
  /\ called' = called \cup {"updateRelationships"}
  /\ linkInput' = oneRelationshipPerPairOfNodes(graph)
  /\ forces' = SetForce(forces, "link")
  /\ simAlpha' = DEFAULT_ALPHA
  /\ lastOp' = "updateRelationships"
  /\ events' = <<>>
  /\ before' = phase
  /\ lastGraph' = graph
  /\ UNCHANGED <<exec, graphModel, simAlphaMin, timerRunning, simNodes,
                 endSimulationCallback, mounted, controlCalls, phase,
                 invocations>>

\* updateRelationships(graph): install the link force over one relationship
\* per pair of nodes
updateRelationships(graph) ==
  /\ mounted
  /\ called' = called \cup {"updateRelationships"}
  /\ linkInput' = oneRelationshipPerPairOfNodes(graph)
  /\ forces' = SetForce(forces, "link")
  /\ lastOp' = "updateRelationships"
  /\ events' = <<>>
  /\ before' = phase
  /\ lastGraph' = graph
  /\ UNCHANGED <<exec, graphModel, simAlpha, simAlphaMin, timerRunning, simNodes,
                 endSimulationCallback, mounted, controlCalls, phase,
                 invocations>>

precompute_KeepRunning ==
  /\ mounted
  /\ called' = called \cup {"precompute"}
  /\ simAlpha' = Tick(simAlpha, PRECOMPUTED_TICKS)
  /\ phase' = "stopped"
  /\ lastOp' = "precompute"
  /\ events' = <<Ev("tick", PRECOMPUTED_TICKS), Ev("render", 1)>>
  /\ before' = phase
  /\ lastGraph' = NoGraph
  /\ UNCHANGED <<exec, graphModel, simAlphaMin, timerRunning, simNodes, forces, linkInput,
                 endSimulationCallback, mounted, invocations>>

precompute_DispatchEnd ==
  /\ mounted
  /\ called' = called \cup {"precompute"}
  /\ timerRunning' = FALSE
  /\ simAlpha' = Tick(simAlpha, PRECOMPUTED_TICKS)
  /\ phase' = "stopped"
  /\ lastOp' = "precompute"
  /\ events' = <<Ev("tick", PRECOMPUTED_TICKS), Ev("render", 1)>>
  /\ before' = phase
  /\ lastGraph' = NoGraph
  /\ endSimulationCallback' =
       IF Tick(simAlpha, PRECOMPUTED_TICKS) < simAlphaMin THEN Null
       ELSE endSimulationCallback
  /\ UNCHANGED <<exec, graphModel, simAlphaMin, simNodes, forces, linkInput, mounted,
                 invocations>>

\* precompute(): simulation.stop().tick(PRECOMPUTED_TICKS), then render()
precompute ==
  /\ mounted
  /\ called' = called \cup {"precompute"}
  /\ timerRunning' = FALSE
  /\ simAlpha' = Tick(simAlpha, PRECOMPUTED_TICKS)
  /\ phase' = "stopped"
  /\ lastOp' = "precompute"
  /\ events' = <<Ev("tick", PRECOMPUTED_TICKS), Ev("render", 1)>>
  /\ before' = phase
  /\ lastGraph' = NoGraph
  /\ UNCHANGED <<exec, graphModel, simAlphaMin, simNodes, forces, linkInput,
                 endSimulationCallback, mounted, invocations>>

restart_KeepAlphaMin ==
  /\ mounted
  /\ called' = called \cup {"restart"}
  /\ simAlpha' = DEFAULT_ALPHA
  /\ timerRunning' = TRUE
  /\ phase' = "animating"
  /\ lastOp' = "restart"
  /\ events' = <<>>
  /\ before' = phase
  /\ lastGraph' = NoGraph
  /\ UNCHANGED <<exec, graphModel, simAlphaMin, simNodes, forces, linkInput,
                 endSimulationCallback, mounted, invocations>>

restart_KeepAlpha ==
  /\ mounted
  /\ called' = called \cup {"restart"}
  /\ simAlphaMin' = DEFAULT_ALPHA_MIN
  /\ timerRunning' = TRUE
  /\ phase' = "animating"
  /\ lastOp' = "restart"
  /\ events' = <<>>
  /\ before' = phase
  /\ lastGraph' = NoGraph
  /\ UNCHANGED <<exec, graphModel, simAlpha, simNodes, forces, linkInput, endSimulationCallback,
                 mounted, invocations>>

\* restart(): simulation.alphaMin(DEFAULT_ALPHA_MIN).alpha(DEFAULT_ALPHA).restart()
restart ==
  /\ mounted
  /\ called' = called \cup {"restart"}
  /\ simAlphaMin' = DEFAULT_ALPHA_MIN
  /\ simAlpha' = DEFAULT_ALPHA
  /\ timerRunning' = TRUE
  /\ phase' = "animating"
  /\ lastOp' = "restart"
  /\ events' = <<>>
  /\ before' = phase
  /\ lastGraph' = NoGraph
  /\ UNCHANGED <<exec, graphModel, simNodes, forces, linkInput, endSimulationCallback,
                 mounted, invocations>>

\* a caller registers the one-shot end callback (field endSimulationCallback)
setEndSimulationCallback ==
  /\ mounted
  /\ endSimulationCallback' = Callback
  /\ invocations' = 0
  /\ lastOp' = "setEndSimulationCallback"
  /\ events' = <<>>
  /\ before' = phase
  /\ lastGraph' = NoGraph
  /\ UNCHANGED <<exec, graphModel, called, simAlpha, simAlphaMin, timerRunning, simNodes, forces,
                 linkInput, mounted, controlCalls, phase>>

\* GraphModel.addInternalRelationships(relationships)
addInternalRelationships(g, relationships) ==
  [g EXCEPT !.relationships = @ \o relationships]

\* getGraphStats(graph): the model keeps the number of relationships counted
getGraphStats(g) == Len(g.relationships)

AutoCompleteUpdate_Nodes == [updateNodes |-> TRUE, updateRelationships |-> TRUE]

\* the options of the update the auto-complete callback requests
AutoCompleteUpdate == [updateNodes |-> FALSE, updateRelationships |-> TRUE]

\* Visualization.update(options): the methods of the force simulation it
\* calls, in order
VisualizationUpdate(options) ==
  (IF options.updateNodes THEN <<"updateNodes">> ELSE <<>>) \o
  (IF options.updateRelationships THEN <<"updateRelationships">> ELSE <<>>)

\* the callback handed to getAutoCompleteCallback: add the mapped internal
\* relationships to the graph, notify the graph-model change, request the
\* update of the visualisation, end the hover
autoCompleteCallback(internalRelationships) ==
  LET mapped == mapRelationships(internalRelationships, graphModel)
      g == addInternalRelationships(graphModel, mapped)
      calls == VisualizationUpdate(AutoCompleteUpdate)
      doNodes == "updateNodes" \in Range(calls)
      doRelationships == "updateRelationships" \in Range(calls)
      withCollide == IF doNodes THEN SetForce(forces, "collide") ELSE forces
  IN /\ graphModel' = g
     /\ simNodes' = IF doNodes THEN g.nodes ELSE simNodes
     /\ linkInput' = IF doRelationships
                     THEN oneRelationshipPerPairOfNodes(g) ELSE linkInput
     /\ forces' = IF doRelationships
                  THEN SetForce(withCollide, "link") ELSE withCollide
     /\ called' = called \cup Range(calls)
     /\ events' = <<Ev("addInternalRelationships", Len(mapped)),
                    Ev("onGraphModelChange", getGraphStats(g)),
                    Ev("update", 1)>> \o
                  (IF doNodes THEN updateNodesEvents(g) ELSE <<>>) \o
                  (IF doRelationships
                   THEN <<Ev("updateRelationships", 1)>> ELSE <<>>) \o
                  <<Ev("onItemMouseOut", 1)>>
     /\ lastOp' = "autoCompleteCallback"
     /\ before' = phase
     /\ lastGraph' = graphModel
     /\ UNCHANGED <<exec, simAlpha, simAlphaMin, timerRunning,
                    endSimulationCallback, mounted, controlCalls, phase,
                    invocations>>

\* on('tick') handler: this.simulation.tick(TICKS_PER_RENDER); render()
onTickAlpha(a) == Tick(a, TICKS_PER_RENDER)

onTickEvents_RenderFirst == <<Ev("render", 1), Ev("tick", TICKS_PER_RENDER)>>

onTickEvents == <<Ev("tick", TICKS_PER_RENDER), Ev("render", 1)>>

onEndEvents_Skip(cb) == <<>>

\* on('end') handler: call the callback when one is registered ...
onEndEvents(cb) == IF cb # Null THEN <<Ev("endCallback", 1)>> ELSE <<>>

onEndCallback_Keep(cb) == cb

\* ... and clear it
onEndCallback(cb) == Null

\* d3 step(): the timer stops and 'end' is dispatched when alpha < alphaMin
stepStops(a, amin) == a < amin

\* one frame of the d3 timer, step(): tick(); dispatch 'tick';
\* if (alpha < alphaMin) { stepper.stop(); dispatch 'end' }
step ==
  /\ timerRunning
  /\ \E a \in {onTickAlpha(Tick(simAlpha, 1))} :
     LET ended == stepStops(a, simAlphaMin)
         endEvents == onEndEvents(endSimulationCallback)
     IN /\ simAlpha' = a
        /\ timerRunning' = ~ended
        /\ phase' = IF ended THEN "converged" ELSE "animating"
        /\ events' = <<Ev("tick", 1)>> \o onTickEvents \o
                     (IF ended THEN <<Ev("end", 1)>> \o endEvents ELSE <<>>)
        /\ endSimulationCallback' =
             IF ended THEN onEndCallback(endSimulationCallback)
             ELSE endSimulationCallback
        /\ invocations' =
             IF ended THEN Cap(invocations + Len(endEvents)) ELSE invocations
  /\ lastOp' = "step"
  /\ before' = phase
  /\ lastGraph' = NoGraph
  /\ UNCHANGED <<exec, graphModel, called, simAlphaMin, simNodes, forces, linkInput, mounted,
                 controlCalls>>

\* the Graph component is unmounted: the class has no componentWillUnmount,
\* nothing reaches the visualisation or the simulation
unmount ==
  /\ mounted
  /\ mounted' = FALSE
  /\ lastOp' = "unmount"
  /\ events' = <<>>
  /\ before' = phase
  /\ lastGraph' = NoGraph
  /\ UNCHANGED <<exec, graphModel, called, simAlpha, simAlphaMin, timerRunning, simNodes, forces,
                 linkInput, endSimulationCallback, controlCalls, phase,
                 invocations>>

(* ------------- the same handlers, statement by statement -------------- *)

\* The methods are synchronous and the d3 timer delivers a frame as a task
\* of the same event loop: a call or a frame begins when no other is in
\* progress and runs to its end.  exec keeps the position reached.

\* updateNodes, entered: nodes = graph.nodes(), the radius, circularLayout
updateNodes_enter(graph) ==
  /\ mounted
  /\ exec.call = "none"
  /\ ~exec.frame
  /\ exec' = [exec EXCEPT !.call = "updateNodes", !.pc = 1,
                          !.nodesGraph = graph,
                          !.whileAnimating = timerRunning]
  /\ called' = called \cup {"updateNodes"}
  /\ lastOp' = "updateNodes"
  /\ events' = updateNodesEvents(graph)
  /\ before' = phase
  /\ lastGraph' = graph
  /\ UNCHANGED <<simAlpha, simAlphaMin, timerRunning, simNodes, forces,
                 linkInput, endSimulationCallback, mounted, controlCalls,
                 phase, invocations, graphModel>>

\* updateNodes, second statement: this.simulation.nodes(nodes)
updateNodes_nodes ==
  /\ exec.call = "updateNodes"
  /\ exec.pc = 1
  /\ simNodes' = exec.nodesGraph.nodes
  /\ exec' = [exec EXCEPT !.pc = 2]
  /\ UNCHANGED <<simAlpha, simAlphaMin, timerRunning, forces, linkInput,
                 endSimulationCallback, mounted, controlCalls, phase, lastOp,
                 events, before, lastGraph, invocations, called, graphModel>>

\* updateNodes, last statement: .force('collide', ...), and the return
updateNodes_force ==
  /\ exec.call = "updateNodes"
  /\ exec.pc = 2
  /\ forces' = SetForce(forces, "collide")
  /\ exec' = [exec EXCEPT !.call = "none", !.pc = 0]
  /\ UNCHANGED <<simAlpha, simAlphaMin, timerRunning, simNodes, linkInput,
                 endSimulationCallback, mounted, controlCalls, phase, lastOp,
                 events, before, lastGraph, invocations, called, graphModel>>

\* updateRelationships, entered: relationships =
\* oneRelationshipPerPairOfNodes(graph)
updateRelationships_enter(graph) ==
  /\ mounted
  /\ exec.call = "none"
  /\ ~exec.frame
  /\ exec' = [exec EXCEPT !.call = "updateRelationships", !.pc = 1,
                          !.relationshipsGraph = graph,
                          !.whileAnimating = timerRunning]
  /\ called' = called \cup {"updateRelationships"}
  /\ lastOp' = "updateRelationships"
  /\ events' = <<>>
  /\ before' = phase
  /\ lastGraph' = graph
  /\ UNCHANGED <<simAlpha, simAlphaMin, timerRunning, simNodes, forces,
                 linkInput, endSimulationCallback, mounted, controlCalls,
                 phase, invocations, graphModel>>

\* updateRelationships, last statement: this.simulation.force('link',
\* forceLink(relationships)...), and the return
updateRelationships_force ==
  /\ exec.call = "updateRelationships"
  /\ exec.pc = 1
  /\ linkInput' = oneRelationshipPerPairOfNodes(exec.relationshipsGraph)
  /\ forces' = SetForce(forces, "link")
  /\ exec' = [exec EXCEPT !.call = "none", !.pc = 0]
  /\ UNCHANGED <<simAlpha, simAlphaMin, timerRunning, simNodes,
                 endSimulationCallback, mounted, controlCalls, phase, lastOp,
                 events, before, lastGraph, invocations, called, graphModel>>

step_enter_Preempt ==
  /\ timerRunning
  /\ ~exec.frame
  /\ exec' = [exec EXCEPT !.frame = TRUE, !.done = 0, !.nodes = simNodes,
                          !.links = linkInput]
  /\ lastOp' = "step"
  /\ events' = <<>>
  /\ before' = phase
  /\ lastGraph' = NoGraph
  /\ UNCHANGED <<simAlpha, simAlphaMin, timerRunning, simNodes, forces,
                 linkInput, endSimulationCallback, mounted, controlCalls,
                 phase, invocations, called, graphModel>>

\* the d3 timer delivers a frame: step() is entered; the frame integrates
\* over the nodes and the links the simulation holds
step_enter ==
  /\ timerRunning
  /\ exec.call = "none"
  /\ ~exec.frame
  /\ exec' = [exec EXCEPT !.frame = TRUE, !.done = 0, !.nodes = simNodes,
                          !.links = linkInput]
  /\ lastOp' = "step"
  /\ events' = <<>>
  /\ before' = phase
  /\ lastGraph' = NoGraph
  /\ UNCHANGED <<simAlpha, simAlphaMin, timerRunning, simNodes, forces,
                 linkInput, endSimulationCallback, mounted, controlCalls,
                 phase, invocations, called, graphModel>>

\* one integration step of the frame: the tick() of step(), then each of
\* the TICKS_PER_RENDER iterations of the handler's simulation.tick(n)
step_tick ==
  /\ exec.frame
  /\ exec.done < TICKS_PER_RENDER + 1
  /\ simAlpha' = Tick(simAlpha, 1)
  /\ exec' = [exec EXCEPT !.done = @ + 1]
  /\ events' = Append(events, Ev("tick", 1))
  /\ UNCHANGED <<simAlphaMin, timerRunning, simNodes, forces, linkInput,
                 endSimulationCallback, mounted, controlCalls, phase, lastOp,
                 before, lastGraph, invocations, called, graphModel>>

\* the end of the frame: render(), then the alpha < alphaMin test of step()
step_end ==
  /\ exec.frame
  /\ exec.done = TICKS_PER_RENDER + 1
  /\ LET ended == stepStops(simAlpha, simAlphaMin)
         endEvents == onEndEvents(endSimulationCallback)
     IN /\ timerRunning' = ~ended
        /\ phase' = IF ended THEN "converged" ELSE "animating"
        /\ events' = Append(events, Ev("render", 1)) \o
                     (IF ended THEN <<Ev("end", 1)>> \o endEvents ELSE <<>>)
        /\ endSimulationCallback' =
             IF ended THEN onEndCallback(endSimulationCallback)
             ELSE endSimulationCallback
        /\ invocations' =
             IF ended THEN Cap(invocations + Len(endEvents)) ELSE invocations
  /\ exec' = [exec EXCEPT !.frame = FALSE, !.done = 0]
  /\ UNCHANGED <<simAlpha, simAlphaMin, simNodes, forces, linkInput, mounted,
                 controlCalls, lastOp, before, lastGraph, called, graphModel>>

(* --------------------------- specifications --------------------------- *)

\* the controller never reads the graph of the component: where the
\* controller alone is explored the component is mounted with the nodes and
\* no relationship
InitController == Init /\ graphModel = createGraph(NodeIds, <<>>)

\* relationship lists handed to updateRelationships where the run state is
\* explored: none, one, two parallel (one reversed), two between other pairs
SampleGraphs ==
  { [nodes |-> NodeIds, relationships |-> <<>>],
    [nodes |-> NodeIds, relationships |-> <<Relationship(1, "A", "B")>>],
    [nodes |-> NodeIds, relationships |->
       <<Relationship(1, "A", "B"), Relationship(2, "B", "A")>>],
    [nodes |-> NodeIds, relationships |->
       <<Relationship(1, "A", "B"), Relationship(2, "A", "A")>>] }

\* the controller in every run state: every method at any time, the timer
\* frames and the unmount of the component
Next ==
  \/ \E graph \in NodeGraphs : updateNodes(graph)
  \/ \E graph \in SampleGraphs : updateRelationships(graph)
  \/ (precompute /\ UNCHANGED controlCalls)
  \/ (restart /\ UNCHANGED controlCalls)
  \/ setEndSimulationCallback
  \/ step
  \/ unmount

Spec == InitController /\ [][Next]_vars

\* the data side: updateNodes and updateRelationships on every graph of the
\* bounds, while the simulation is stopped or animating
NextData ==
  \/ \E graph \in Graphs : updateNodes(graph)
  \/ \E graph \in Graphs : updateRelationships(graph)
  \/ (restart /\ UNCHANGED controlCalls)

DataSpec == InitController /\ [][NextData]_vars

\* the graphs handed to the controller in the liveness specification
LiveGraphs ==
  { [nodes |-> NodeIds, relationships |-> <<>>],
    [nodes |-> NodeIds, relationships |-> <<Relationship(1, "A", "B")>>] }

\* the same program with finitely many restart()/precompute() calls and a
\* timer that keeps delivering frames while it is scheduled
NextLive ==
  \/ \E graph \in LiveGraphs : updateNodes(graph)
  \/ \E graph \in LiveGraphs : updateRelationships(graph)
  \/ (controlCalls > 0 /\ controlCalls' = controlCalls - 1 /\ precompute)
  \/ (controlCalls > 0 /\ controlCalls' = controlCalls - 1 /\ restart)
  \/ setEndSimulationCallback
  \/ step
  \/ unmount

LiveSpec == InitController /\ [][NextLive]_vars /\ WF_vars(step)

\* the relationship lists the auto-complete callback is invoked with:
\* endpoint pairs among the nodes of the graph, as many as the bound allows
InternalRelationships(g) ==
  UNION { [1..n -> g.nodes \X g.nodes] :
          n \in 0..(MaxRels - Len(g.relationships)) }

\* the Graph component: the auto-complete callback is invoked while the
\* node set of the simulation is replaced and the simulation is restarted
NextGraph ==
  \/ \E internalRelationships \in InternalRelationships(graphModel) :
       autoCompleteCallback(internalRelationships)
  \/ \E graph \in NodeGraphs : updateNodes(graph)
  \/ (restart /\ UNCHANGED controlCalls)

GraphSpec == Init /\ [][NextGraph]_vars

\* the controller statement by statement: calls of updateNodes and
\* updateRelationships and the frames of the timer, each begun when nothing
\* else is in progress, and restart() between them
NextStatement ==
  \/ \E graph \in NodeGraphs : updateNodes_enter(graph)
  \/ updateNodes_nodes
  \/ updateNodes_force
  \/ \E graph \in LiveGraphs : updateRelationships_enter(graph)
  \/ updateRelationships_force
  \/ (exec.call = "none" /\ ~exec.frame /\ restart /\ UNCHANGED controlCalls)
  \/ step_enter
  \/ step_tick
  \/ step_end

StatementSpec == InitController /\ [][NextStatement]_vars

(* ------------------------------- claims ------------------------------- *)

Renders(es) == Count(es, "render")

\* C1: precompute(), called in any state, runs exactly PRECOMPUTED_TICKS
\* steps and then renders once, and leaves the per-frame driver stopped; a
\* stopped driver takes no step and renders nothing, and only restart()
\* starts it.
C1_PrecomputeSynchronous ==
  /\ lastOp = "precompute" =>
       /\ events = <<Ev("tick", PRECOMPUTED_TICKS), Ev("render", 1)>>
       /\ ~timerRunning
  /\ lastOp = "step" => before = "animating"
  /\ lastOp \notin {"precompute", "step"} =>
       Steps(events) = 0 /\ Renders(events) = 0
  /\ (timerRunning /\ before # "animating") => lastOp = "restart"

\* precompute() was called while the driver was animating
C1_Witness ==
  lastOp = "precompute" /\ before = "animating" /\ ~timerRunning

\* C2: the end callback is one-shot: an end signal invokes it once when it is
\* registered and leaves it cleared; it is never invoked twice for one
\* registration.
C2_EndCallbackOneShot ==
  /\ [](/\ invocations <= 1
        /\ Count(events, "endCallback") <= Count(events, "end")
        /\ Count(events, "end") = 1 => endSimulationCallback = Null)
  /\ [][(lastOp' = "step" /\ Count(events', "end") = 1) =>
          Count(events', "endCallback") =
            (IF endSimulationCallback = Callback THEN 1 ELSE 0)]_vars

\* a second convergence after the callback fired, with nothing registered
C2_Witness ==
  /\ lastOp = "step"
  /\ Count(events, "end") = 1
  /\ Count(events, "endCallback") = 0
  /\ invocations = 1

\* the simulation has converged at this frame
ConvergedNow ==
  /\ lastOp = "step"
  /\ Count(events, "end") = 1
  /\ ~timerRunning
  /\ simAlpha < simAlphaMin

\* C3: once restart() has set the driver going, if frames keep coming and no
\* further restart() or precompute() is called, alpha drops below alphaMin,
\* the driver stops, and a registered end callback is invoked once.
C3_Convergence ==
  \A k \in 0..MaxControlCalls :
    /\ (controlCalls = k /\ timerRunning) ~>
         (ConvergedNow \/ controlCalls < k)
    /\ (controlCalls = k /\ timerRunning /\ endSimulationCallback = Callback) ~>
         \/ /\ ConvergedNow
            /\ Count(events, "endCallback") = 1
            /\ invocations = 1
            /\ endSimulationCallback = Null
         \/ controlCalls < k

\* converged after the last allowed restart(), the callback invoked
C3_Witness ==
  /\ controlCalls = 0
  /\ ConvergedNow
  /\ Count(events, "endCallback") = 1
  /\ simAlphaMin = DEFAULT_ALPHA_MIN

\* C4: the link force's input has one entry per distinct unordered endpoint
\* pair of the graph's relationships, the first relationship of each pair.
C4_OneLinkPerPair ==
  lastOp = "updateRelationships" =>
    LET rels == lastGraph.relationships
    IN /\ Len(linkInput) = Cardinality({PairKey(r) : r \in Range(rels)})
       /\ Len(linkInput) <= Len(rels)
       /\ (rels = <<>> => linkInput = <<>>)
       /\ \A e \in Range(linkInput) :
            /\ e \in Range(rels)
            /\ \A r \in Range(rels) : PairKey(r) = PairKey(e) => e.id <= r.id

\* two parallel relationships, one of them reversed, gave one entry
C4_Witness ==
  /\ lastOp = "updateRelationships"
  /\ Len(lastGraph.relationships) = 2
  /\ Len(linkInput) = 1
  /\ lastGraph.relationships[1].source # lastGraph.relationships[2].source

\* C5: a relationship with an endpoint outside the engine's node set is left
\* out of the link force's input.
C5_DanglingExcluded ==
  (lastOp = "updateRelationships" /\ simNodes # {}) =>
    \A e \in Range(linkInput) : e.source \in simNodes /\ e.target \in simNodes

\* C6: after updateNodes the engine holds as many nodes as the list has and
\* one 'collide' force; no force name is ever registered twice.
C6_UpdateNodesIdempotent ==
  /\ \A i, j \in 1..Len(forces) : forces[i] = forces[j] => i = j
  /\ lastOp = "updateNodes" =>
       /\ Cardinality(simNodes) = Cardinality(lastGraph.nodes)
       /\ ForceCount("collide") = 1
  /\ lastOp = "updateRelationships" => ForceCount("link") = 1

\* updateNodes was called twice in a row with the same non-empty node list
C6_Witness ==
  /\ lastOp = "updateNodes"
  /\ Count(events, "repeat") = 1
  /\ simNodes = NodeIds
  /\ ForceCount("link") = 1

\* C7 as stated: after updateNodes the driver is not animating.
C7_SeededAfterUpdateNodes ==
  lastOp = "updateNodes" => ~timerRunning

\* C7 amended: updateNodes installs the new node set and leaves the run
\* state as it was: the driver animates afterwards exactly when it did before.
C7_UpdateNodesKeepsRunState ==
  lastOp = "updateNodes" =>
    /\ simNodes = lastGraph.nodes
    /\ timerRunning = (before = "animating")
    /\ phase = before

\* updateNodes was called while animating, and the driver still runs
C7_Witness ==
  lastOp = "updateNodes" /\ before = "animating" /\ timerRunning

\* C8: restart(), in any state, sets alpha and alphaMin to the configured
\* values and leaves the driver running.
C8_RestartResets ==
  lastOp = "restart" =>
    /\ simAlpha = DEFAULT_ALPHA
    /\ simAlphaMin = DEFAULT_ALPHA_MIN
    /\ timerRunning

\* restart() was called on a converged simulation
C8_Witness ==
  lastOp = "restart" /\ before = "converged" /\ timerRunning

\* C9: the end signal is raised only by the frame that takes alpha below
\* alphaMin, at most once per restart; that frame stops the driver and the
\* simulation is idle until restart() or precompute().
C9_EndOncePerCycle ==
  /\ lastOp # "step" => Count(events, "end") = 0
  /\ lastOp = "step" =>
       /\ before = "animating"
       /\ Count(events, "end") = (IF simAlpha < simAlphaMin THEN 1 ELSE 0)
       /\ timerRunning = (Count(events, "end") = 0)
  /\ phase = "converged" => ~timerRunning
  /\ timerRunning => simAlpha >= simAlphaMin
  /\ (phase = "converged" /\ lastOp \notin {"step"}) =>
       (before = "converged" /\ Steps(events) = 0 /\ Renders(events) = 0)

\* converged, and idle while other operations are called
C9_Witness ==
  /\ phase = "converged"
  /\ lastOp = "updateRelationships"
  /\ before = "converged"
  /\ ~timerRunning

\* C10: after the Graph component is torn down no step is taken and nothing
\* is rendered.
C10_NoFrameAfterTeardown ==
  ~mounted => (Steps(events) = 0 /\ Renders(events) = 0)


\* the event of the given kind in the history of the last operation
EventN(kind) == (CHOOSE e \in Range(events) : e.kind = kind).n

\* C11: updateNodes is enabled for every node count k >= 0, the empty set
\* included; afterwards the engine holds exactly the k nodes of the graph,
\* k positions were assigned, and the radius is k * L / (2*pi), a value that
\* is never negative; for k = 0 the radius is exactly 0, no position is
\* assigned and the engine holds no node
C11_EmptyNodeSetSeeding ==
  lastOp = "updateNodes" =>
    LET k == Cardinality(lastGraph.nodes)
        r == EventN("radius")
    IN /\ Count(events, "radius") = 1
       /\ Cardinality(simNodes) = k
       /\ EventN("seed") = k
       /\ r >= 0
       /\ r * TWO_PI <= k * LINK_DISTANCE * 1000000
       /\ k * LINK_DISTANCE * 1000000 < (r + 1) * TWO_PI
       /\ k = 0 => (r = 0 /\ simNodes = {} /\ EventN("seed") = 0)

C11_Witness ==
  /\ lastOp = "updateNodes"
  /\ lastGraph.nodes = {}
  /\ simNodes = {}
  /\ EventN("radius") = 0
  /\ ForceCount("link") = 1

\* the history of the 'tick' handler in a frame: what follows the one step
\* the engine's driver takes itself before it dispatches 'tick'
HandlerEvents(es) == SubSeq(es, 2, 3)

\* C12: in every frame of the per-frame driver the 'tick' handler runs
\* exactly TICKS_PER_RENDER integration sub-steps in one batch and then
\* invokes render exactly once, after them: render is the only render of
\* the frame and no integration step of the frame comes after it.  (The
\* handler runs inside the engine's step(), which has taken one step of its
\* own before, so the frame integrates TICKS_PER_RENDER + 1 steps.)
C12_FrameSubSteps ==
  lastOp = "step" =>
    /\ events[1] = Ev("tick", 1)
    /\ HandlerEvents(events) = <<Ev("tick", TICKS_PER_RENDER), Ev("render", 1)>>
    /\ Steps(HandlerEvents(events)) = TICKS_PER_RENDER
    /\ Renders(events) = 1
    /\ Steps(events) = TICKS_PER_RENDER + 1
    /\ \E i \in 1..Len(events) - 1 :
         /\ events[i] = Ev("tick", TICKS_PER_RENDER)
         /\ events[i + 1] = Ev("render", 1)
         /\ \A j \in 1..Len(events) : events[j].kind = "tick" => j <= i

\* a frame was delivered while animating and the driver still runs: the
\* handler ran its batch of sub-steps and rendered once
C12_Witness ==
  /\ lastOp = "step"
  /\ before = "animating"
  /\ timerRunning
  /\ Steps(events) = TICKS_PER_RENDER + 1
  /\ Renders(events) = 1
  /\ simAlpha = Tick(DEFAULT_ALPHA, TICKS_PER_RENDER + 1)

\* the registered forces other than the one of the given name
OtherForces(fs, name) == {f \in Range(fs) : f # name}

\* C14: a call of updateRelationships changes nothing of the run state: the
\* per-frame driver runs after the call exactly when it ran before, and
\* alpha, alphaMin, the node set, the registered end callback and the
\* forces other than 'link' are what they were before the call
C14_UpdateRelationshipsKeepsRunState ==
  [][lastOp' = "updateRelationships" =>
       /\ timerRunning' = timerRunning
       /\ phase' = phase
       /\ simAlpha' = simAlpha
       /\ simAlphaMin' = simAlphaMin
       /\ simNodes' = simNodes
       /\ endSimulationCallback' = endSimulationCallback
       /\ OtherForces(forces', "link") = OtherForces(forces, "link")]_vars

\* updateRelationships was called on an animating simulation with nodes, a
\* registered end callback and an alpha that has already decayed
C14_Witness ==
  /\ lastOp = "updateRelationships"
  /\ before = "animating"
  /\ timerRunning
  /\ simAlpha < DEFAULT_ALPHA
  /\ simNodes # {}
  /\ endSimulationCallback = Callback
  /\ linkInput # <<>>

\* neither precompute() nor restart() has been called since construction
NotStarted == called \cap {"precompute", "restart"} = {}

\* C15: from construction to the first call of precompute() or restart()
\* the per-frame driver is stopped: no operation takes an integration step,
\* renders or dispatches 'end', the end callback is not invoked, and alpha
\* is the alpha of construction, whatever updateNodes, updateRelationships
\* and callback registrations happen in between
C15_FreshControllerStopped ==
  NotStarted =>
    /\ ~timerRunning
    /\ phase = "stopped"
    /\ lastOp # "step"
    /\ Steps(events) = 0
    /\ Renders(events) = 0
    /\ Count(events, "end") = 0
    /\ Count(events, "endCallback") = 0
    /\ invocations = 0
    /\ simAlpha = D3_ALPHA

\* updateNodes and updateRelationships were called and an end callback was
\* registered, and the controller has not been started
C15_Witness ==
  /\ NotStarted
  /\ called = {"updateNodes", "updateRelationships"}
  /\ simNodes = NodeIds
  /\ linkInput # <<>>
  /\ endSimulationCallback = Callback
  /\ ~timerRunning

\* C16: precompute() neither invokes nor clears the end callback and
\* dispatches no 'end', also when its steps take alpha below alphaMin: the
\* callback registered before the call is registered after it; the driver
\* is stopped after precompute() and only restart() schedules it again, and
\* the callback is invoked only by a frame of the running driver that
\* converges
C16_PrecomputeKeepsEndCallback ==
  /\ [](/\ lastOp = "precompute" =>
             /\ ~timerRunning
             /\ Count(events, "end") = 0
             /\ Count(events, "endCallback") = 0
        /\ Count(events, "endCallback") > 0 =>
             /\ ConvergedNow
             /\ before = "animating"
             /\ "restart" \in called)
  /\ [][/\ lastOp' = "precompute" =>
             /\ endSimulationCallback' = endSimulationCallback
             /\ invocations' = invocations
        /\ (~timerRunning /\ timerRunning') => lastOp' = "restart"]_vars

\* precompute() was called on an animating simulation with a registered
\* callback and took alpha below alphaMin; the callback is still registered
\* and has not been invoked
C16_Witness ==
  /\ lastOp = "precompute"
  /\ before = "animating"
  /\ simAlpha < simAlphaMin
  /\ endSimulationCallback = Callback
  /\ invocations = 0

\* C17: the registered force names are among charge, centerX, centerY,
\* collide and link; charge, centerX and centerY are registered in every
\* state, collide exactly when updateNodes has been called, link exactly
\* when updateRelationships has been called; no step of the program removes
\* a registered force
C17_ForceNames ==
  /\ [](/\ Range(forces) \subseteq
               {"charge", "centerX", "centerY", "collide", "link"}
        /\ {"charge", "centerX", "centerY"} \subseteq Range(forces)
        /\ ("collide" \in Range(forces)) <=> ("updateNodes" \in called)
        /\ ("link" \in Range(forces)) <=> ("updateRelationships" \in called))
  /\ [][Range(forces) \subseteq Range(forces')]_vars

\* updateRelationships was called before updateNodes: all five forces are
\* registered, link before collide, and the driver has delivered a frame
C17_Witness ==
  /\ forces = <<"charge", "centerX", "centerY", "link", "collide">>
  /\ called = {"updateNodes", "updateRelationships", "restart"}
  /\ lastOp = "step"

\* C18: a call of updateNodes leaves the relationship list of the link
\* force as it was, also where the list names nodes that are not in the new
\* node set; the list changes only in a call of updateRelationships
C18_UpdateNodesKeepsLinks ==
  [][/\ lastOp' = "updateNodes" => linkInput' = linkInput
     /\ linkInput' # linkInput => lastOp' = "updateRelationships"]_vars

\* updateNodes replaced the node set by one that lacks an endpoint of a
\* relationship the link force still holds
C18_Witness ==
  /\ lastOp = "updateNodes"
  /\ simNodes = lastGraph.nodes
  /\ \E r \in Range(linkInput) : r.source \in simNodes /\ r.target \notin simNodes

\* the position of the event of the given kind in a history
Pos(es, kind) == CHOOSE i \in 1..Len(es) : es[i].kind = kind

\* C19: an invocation of the auto-complete callback appends the mapped
\* internal relationships to the graph and leaves its nodes alone; it
\* requests one update that calls updateRelationships and not updateNodes:
\* the link force is rebuilt from the graph with the additions, the node set
\* of the simulation is not replaced, nothing is seeded and no force other
\* than link is registered; the graph-model change is notified, with the
\* statistics of the graph after the addition, before the update
C19_AutoCompleteUpdatesRelationshipsOnly ==
  [][lastOp' = "autoCompleteCallback" =>
       LET old == graphModel.relationships
           new == graphModel'.relationships
       IN /\ graphModel'.nodes = graphModel.nodes
          /\ Len(new) = Len(old) + events'[1].n
          /\ SubSeq(new, 1, Len(old)) = old
          /\ \A i \in 1..Len(new) :
               new[i].source \in graphModel.nodes /\
               new[i].target \in graphModel.nodes
          /\ simNodes' = simNodes
          /\ Count(events', "seed") = 0
          /\ Count(events', "radius") = 0
          /\ "updateNodes" \in called' <=> "updateNodes" \in called
          /\ OtherForces(forces', "link") = OtherForces(forces, "link")
          /\ ForceCount("link")' = 1
          /\ linkInput' = oneRelationshipPerPairOfNodes(graphModel')
          /\ Count(events', "update") = 1
          /\ Count(events', "updateRelationships") = 1
          /\ Count(events', "onGraphModelChange") = 1
          /\ events'[1].kind = "addInternalRelationships"
          /\ Pos(events', "onGraphModelChange") < Pos(events', "update")
          /\ Pos(events', "update") < Pos(events', "updateRelationships")
          /\ events'[Pos(events', "onGraphModelChange")].n = Len(new)]_vars

\* the callback added one relationship to a graph that held one, while the
\* simulation holds another node set than the graph and has never been
\* given a node set by updateNodes
C19_Witness ==
  /\ lastOp = "autoCompleteCallback"
  /\ Len(lastGraph.relationships) = 1
  /\ Len(graphModel.relationships) = 2
  /\ EventN("addInternalRelationships") = 1
  /\ simNodes = {}
  /\ ForceCount("collide") = 0
  /\ Len(linkInput) = 1

\* C13: a call of updateNodes or updateRelationships made while the
\* simulation is animating is never in progress during a frame of the
\* timer: every integration step of a frame runs on the node set and the
\* link list the frame began with, and these are the complete node set of
\* the last updateNodes call, with its collide force, and the complete
\* relationship list of the last updateRelationships call
C13_AtomicReplacement ==
  exec.frame =>
    /\ exec.call = "none"
    /\ simNodes = exec.nodes
    /\ linkInput = exec.links
    /\ "updateNodes" \in called =>
         (simNodes = exec.nodesGraph.nodes /\ ForceCount("collide") = 1)
    /\ "updateRelationships" \in called =>
         /\ linkInput = oneRelationshipPerPairOfNodes(exec.relationshipsGraph)
         /\ ForceCount("link") = 1

\* a frame is past its first integration steps on the node set and the
\* links that updateNodes and updateRelationships installed; the last of
\* the two calls was made while the simulation was animating
C13_Witness ==
  /\ exec.frame
  /\ exec.done = 2
  /\ simNodes = {"A"}
  /\ linkInput # <<>>
  /\ before = "animating"
  /\ exec.whileAnimating
  /\ exec.nodesGraph.nodes = {"A"}
  /\ simAlpha < Tick(DEFAULT_ALPHA, TICKS_PER_RENDER + 1)
====
